---- MODULE Spec2Model ----
(***************************************************************************)
(* Verification model of uplift-sklearn:                                   *)
(*   - usklearn/classifiers/classifier_as_regressor.py                     *)
(*     (ClassifierAsRegressor: __init__, fit, predict, __getattr__)        *)
(*   - usklearn/datasets/uis.py (fetch_uis and its schema), together with  *)
(*     the shared pipeline it calls (_fetch_remote_csv of datasets/base.py)*)
(*                                                                         *)
(* Three specifications share the variables:                               *)
(*   Spec      the adapter object and the calls made on it                 *)
(*   SpecFetch the cache directory and concurrent fetch invocations        *)
(*   SpecLoad  loader invocations (schema, shuffling, output shape)        *)
(***************************************************************************)
EXTENDS Integers, Sequences, FiniteSets, TLC

VARIABLES
    \* ---- adapter (classifier_as_regressor.py)
    dict,       \* the instance __dict__ of the adapter: attribute name -> value
    stack,      \* names of the __getattr__ frames in progress (innermost last)
    last,       \* the most recent completed call on the adapter and its outcome
    wrapped,    \* the wrapped estimator's side: number, arguments and result
                \* of the estimator.fit calls received, the estimator its most
                \* recent returning call gave (fitted) and the one before
    fitCalls,   \* number of ClassifierAsRegressor.fit invocations so far
    \* ---- fetcher (cache directory shared by independent processes)
    descriptor, \* the resource descriptor of the dataset being fetched
    cache,      \* content of the file at the cache path of logical_name
    temp,       \* per process: content of its temporary download file
    proc,       \* per process: position and outcome of its fetch invocation
    \* ---- loader (fetch_uis invocations)
    table,      \* number of rows of the raw table
    runs        \* completed loader invocations: [args, perm, result]

adapterVars == <<dict, stack, last, wrapped, fitCalls>>
fetchVars == <<descriptor, cache, temp, proc>>
loadVars == <<table, runs>>
vars == <<dict, stack, last, wrapped, fitCalls, descriptor, cache, temp, proc, table, runs>>

----------------------------------------------------------------------------
(* Bounds of the model *)

MaxRows == 3        \* rows of a response array
MaxCols == 3        \* columns (classes) of a two-dimensional response
MaxFits == 2        \* fit calls per behaviour
RecursionLimit == 3 \* interpreter recursion limit (frames of __getattr__)

----------------------------------------------------------------------------
(* Values *)

\* the cell of a response array at row i, column j: every cell of an array
\* holds a different number, so that a moved or altered cell shows
Cell(i, j) == 10 * i + j

\* the wrapped (unfitted) estimator, and the objects estimator.fit may return
Unfitted == "clf"
FittedEstimators == {"fitted_a", "fitted_b"}

\* arguments of fit and predict calls
CallArgs == {"X1", "X2"}

\* values of the constructor parameters
ResponseMethods == {"predict_proba", "decision_function"}
PosLabels == {-1, 0, 1, 2}

\* attribute names looked up on the adapter
OwnedNames == {"fitted_estimator_", "response_method", "pos_label"}
ClassAttrs == {"fit", "predict"}
AttrNames == OwnedNames \cup ClassAttrs \cup
             {"estimator", "predict_proba", "classes_", "foo"}

\* the attributes a wrapped classifier offers: its methods, and classes_
\* once fitted
EstimatorAttrs(e) ==
    IF e = Unfitted THEN {"fit", "predict_proba", "decision_function"}
    ELSE {"fit", "predict_proba", "decision_function", "classes_"}

\* arrays: shape is the numpy shape, vals the nested cell values
NoArray == [shape |-> <<>>, vals |-> <<>>]
Arrays1 == {[shape |-> <<n>>, vals |-> [i \in 1..n |-> Cell(i, 0)]] :
            n \in 0..MaxRows}
Arrays2 == {[shape |-> <<n, m>>,
             vals |-> [i \in 1..n |-> [j \in 1..m |-> Cell(i, j)]]] :
            n \in 0..MaxRows, m \in 1..MaxCols}
Arrays3 == {[shape |-> <<n, 1, 1>>,
             vals |-> [i \in 1..n |-> <<<<Cell(i, 1)>>>>]] : n \in 1..MaxRows}
ArraysOf(nd) == IF nd = 1 THEN Arrays1 ELSE IF nd = 2 THEN Arrays2 ELSE Arrays3

EmptyDict == [n \in {} |-> 0]
Put(d, k, v) == [n \in DOMAIN d \cup {k} |-> IF n = k THEN v ELSE d[n]]

----------------------------------------------------------------------------
(* ClassifierAsRegressor: pure parts of the methods *)

\* __init__: the three constructor parameters become instance attributes
__init__(estimator, response_method, pos_label) ==
    Put(Put(Put(EmptyDict, "estimator", estimator),
            "response_method", response_method),
        "pos_label", pos_label)

\* fit, the assignment: self.fitted_estimator_ = <result of estimator.fit>
fit_store_cached(d, fitted) ==
    IF "fitted_estimator_" \in DOMAIN d THEN d
    ELSE Put(d, "fitted_estimator_", fitted)
fit_store(d, fitted) == Put(d, "fitted_estimator_", fitted)

\* __getattr__(name), run only after normal lookup has failed:
\*   owned names are read from __dict__ (a miss raises AttributeError),
\*   every other name is forwarded to self.estimator while
\*   fitted_estimator_ is not in __dict__, and to self.fitted_estimator_ after
__getattr__unfitted_only(d, name) ==
    IF name \in OwnedNames
    THEN IF name \in DOMAIN d
         THEN [kind |-> "return", via |-> "none"]
         ELSE [kind |-> "raise", via |-> "none"]
    ELSE [kind |-> "forward", via |-> "estimator"]
__getattr__(d, name) ==
    IF name \in OwnedNames
    THEN IF name \in DOMAIN d
         THEN [kind |-> "return", via |-> "none"]
         ELSE [kind |-> "raise", via |-> "none"]
    ELSE IF "fitted_estimator_" \notin DOMAIN d
         THEN [kind |-> "forward", via |-> "estimator"]
         ELSE [kind |-> "forward", via |-> "fitted_estimator_"]

\* self.<name> for an owned name: the instance __dict__, else __getattr__
self_attr(d, name) ==
    IF name \in DOMAIN d THEN [kind |-> "return", value |-> d[name]]
    ELSE [kind |-> __getattr__(d, name).kind, value |-> "none"]

\* predict, first line: the estimator whose response method is looked up
predict_estimator_fallback(d) ==
    IF "fitted_estimator_" \in DOMAIN d THEN self_attr(d, "fitted_estimator_")
    ELSE self_attr(d, "estimator")
predict_estimator(d) == self_attr(d, "fitted_estimator_")

\* getattr(e, name) on a wrapped estimator
est_getattr(e, name) ==
    IF name \in EstimatorAttrs(e) THEN "return" ELSE "AttributeError"

\* len(preds.shape)
ndim(preds) == Len(preds.shape)

\* preds[:, j] of a two-dimensional array (negative j counts from the end)
column(preds, j) ==
    LET n == preds.shape[1]
        m == preds.shape[2]
        c == IF j < 0 THEN m + j ELSE j
    IN  IF c < 0 \/ c >= m
        THEN [outcome |-> "IndexError", value |-> NoArray]
        ELSE [outcome |-> "return",
              value |-> [shape |-> <<n>>,
                         vals |-> [i \in 1..n |-> preds.vals[i][c + 1]]]]

\* the error predict raises for a response of more than two dimensions
\* (the taxonomy's UnsupportedResponseShapeError is this RuntimeError)
UnsupportedResponseShapeError == "RuntimeError"

\* predict, after the response method has returned preds
predict_body_first_column(preds, pos_label) ==
    IF ndim(preds) > 2
    THEN [outcome |-> "RuntimeError", value |-> NoArray]
    ELSE IF ndim(preds) = 2 THEN column(preds, 0)
    ELSE [outcome |-> "return", value |-> preds]
predict_body_off_by_one(preds, pos_label) ==
    IF ndim(preds) > 3
    THEN [outcome |-> "RuntimeError", value |-> NoArray]
    ELSE IF ndim(preds) = 2 THEN column(preds, pos_label)
    ELSE [outcome |-> "return", value |-> preds]
predict_body(preds, pos_label) ==
    IF ndim(preds) > 2
    THEN [outcome |-> "RuntimeError", value |-> NoArray]
    ELSE IF ndim(preds) = 2 THEN column(preds, pos_label)
    ELSE [outcome |-> "return", value |-> preds]

----------------------------------------------------------------------------
(* ClassifierAsRegressor: the calls *)

NoFit == [calls |-> 0, args |-> "none", result |-> "none",
          fitted |-> "none", earlier |-> "none"]

NoCall == [op |-> "none", arg |-> "none", outcome |-> "none",
           target |-> "none", invoked |-> FALSE, resp |-> NoArray,
           value |-> NoArray, depth |-> 0, before |-> EmptyDict]

Constructed == "estimator" \in DOMAIN dict
Idle == stack = <<>>

\* ClassifierAsRegressor(estimator, response_method, pos_label) on the
\* instance object.__new__ has created
Construct ==
    /\ Idle /\ dict = EmptyDict
    /\ \E rm \in ResponseMethods, pl \in PosLabels :
          dict' = __init__(Unfitted, rm, pl)
    /\ last' = [NoCall EXCEPT !.op = "__init__", !.outcome = "return"]
    /\ UNCHANGED <<stack, wrapped, fitCalls>>

\* fit(*args): estimator.fit(*args) returns a fitted estimator or raises
Fit ==
    /\ Idle /\ Constructed /\ fitCalls < MaxFits
    /\ fitCalls' = fitCalls + 1
    /\ \E a \in CallArgs :
         \/ \E f \in FittedEstimators :
               /\ wrapped' = [calls |-> wrapped.calls + 1, args |-> a,
                              result |-> f, fitted |-> f,
                              earlier |-> wrapped.fitted]
               /\ dict' = fit_store(dict, f)
               /\ last' = [NoCall EXCEPT !.op = "fit", !.arg = a,
                                         !.outcome = "return",
                                         !.target = "self",
                                         !.before = dict]
         \/ /\ wrapped' = [wrapped EXCEPT !.calls = @ + 1, !.args = a,
                                          !.result = "raise"]
            /\ dict' = dict
            /\ last' = [NoCall EXCEPT !.op = "fit", !.arg = a,
                                      !.outcome = "FitError",
                                      !.before = dict]
    /\ UNCHANGED stack

\* predict(*args)
Predict ==
    /\ Idle /\ Constructed
    /\ LET e == predict_estimator(dict)
           rm == self_attr(dict, "response_method")
           pl == self_attr(dict, "pos_label")
           base == [NoCall EXCEPT !.op = "predict", !.before = dict]
       IN \E a \in CallArgs :
          IF e.kind # "return" \/ rm.kind # "return"
          THEN last' = [base EXCEPT !.arg = a, !.outcome = "AttributeError"]
          ELSE IF est_getattr(e.value, rm.value) # "return"
          THEN last' = [base EXCEPT !.arg = a, !.outcome = "AttributeError",
                                    !.target = e.value]
          ELSE \E nd \in 1..3 : \E R \in ArraysOf(nd) :
                 LET r == predict_body(R, pl.value)
                 IN last' = [base EXCEPT !.arg = a, !.target = e.value,
                                         !.invoked = TRUE, !.resp = R,
                                         !.outcome = r.outcome,
                                         !.value = r.value]
    /\ UNCHANGED <<dict, stack, wrapped, fitCalls>>

\* obj.<name>: normal lookup (instance __dict__, then the class); a miss
\* enters __getattr__(name)
GetAttr ==
    /\ Idle
    /\ \E name \in AttrNames :
         IF name \in DOMAIN dict
         THEN /\ last' = [NoCall EXCEPT !.op = "getattr", !.arg = name,
                                        !.outcome = "return",
                                        !.target = "instance",
                                        !.before = dict]
              /\ stack' = stack
         ELSE IF name \in ClassAttrs
         THEN /\ last' = [NoCall EXCEPT !.op = "getattr", !.arg = name,
                                        !.outcome = "return",
                                        !.target = "class",
                                        !.before = dict]
              /\ stack' = stack
         ELSE /\ stack' = <<name>>
              /\ last' = [NoCall EXCEPT !.op = "lookup", !.arg = name,
                                        !.before = dict]
    /\ UNCHANGED <<dict, wrapped, fitCalls>>

\* the end of a lookup: every frame is left (an exception passes through the
\* outer frames, which hold no handler)
Finish(outcome, target) ==
    /\ last' = [NoCall EXCEPT !.op = "getattr", !.arg = stack[1],
                              !.outcome = outcome, !.target = target,
                              !.depth = Len(stack), !.before = dict]
    /\ stack' = <<>>

\* one step of the innermost __getattr__ frame
GetattrStep ==
    /\ ~Idle
    /\ LET name == stack[Len(stack)]
           b == __getattr__(dict, name)
       IN IF b.kind = "raise" THEN Finish("AttributeError", "none")
          ELSE IF b.kind = "return" THEN Finish("return", "instance")
          ELSE IF b.via = "fitted_estimator_"
          THEN Finish(est_getattr(dict["fitted_estimator_"], name),
                      dict["fitted_estimator_"])
          ELSE IF "estimator" \in DOMAIN dict
          THEN Finish(est_getattr(dict["estimator"], name), dict["estimator"])
          \* self.estimator is itself missing: normal lookup fails and
          \* __getattr__("estimator") is entered from inside __getattr__
          ELSE IF Len(stack) >= RecursionLimit
          THEN Finish("RecursionError", "none")
          ELSE /\ stack' = Append(stack, "estimator")
               /\ last' = last
    /\ UNCHANGED <<dict, wrapped, fitCalls>>

InitAdapter ==
    /\ dict = EmptyDict
    /\ stack = <<>>
    /\ last = NoCall
    /\ wrapped = NoFit
    /\ fitCalls = 0

InitFetchIdle ==
    /\ descriptor = "none"
    /\ cache = "none"
    /\ temp = <<>>
    /\ proc = <<>>

InitLoadIdle ==
    /\ table = 0
    /\ runs = <<>>

Init == InitAdapter /\ InitFetchIdle /\ InitLoadIdle

Next ==
    \/ Construct /\ UNCHANGED <<fetchVars, loadVars>>
    \/ Fit /\ UNCHANGED <<fetchVars, loadVars>>
    \/ Predict /\ UNCHANGED <<fetchVars, loadVars>>
    \/ GetAttr /\ UNCHANGED <<fetchVars, loadVars>>
    \/ GetattrStep /\ UNCHANGED <<fetchVars, loadVars>>

Spec == Init /\ [][Next]_vars

----------------------------------------------------------------------------
(* Claims about the adapter, checked under Spec *)

C2_HighRankRaises ==
    (last.op = "predict" /\ last.invoked /\ ndim(last.resp) >= 3) =>
        /\ last.outcome = UnsupportedResponseShapeError
        /\ last.value = NoArray
        /\ dict = last.before

C2_Witness ==
    /\ last.op = "predict" /\ last.invoked
    /\ ndim(last.resp) = 3
    /\ last.outcome = "RuntimeError"

\* C3: every fit call delegates exactly once to estimator.fit with the same
\* arguments, stores what that call returned as fitted_estimator_ and returns
\* the adapter itself; a later predict uses the estimator the most recent
\* returning fit stored, never an earlier one.
C3_FitDelegatesAndStores ==
    /\ wrapped.calls = fitCalls
    /\ last.op = "fit" => wrapped.args = last.arg
    /\ (last.op = "fit" /\ wrapped.result # "raise") =>
          /\ last.outcome = "return"
          /\ last.target = "self"
          /\ "fitted_estimator_" \in DOMAIN dict
          /\ dict["fitted_estimator_"] = wrapped.result
    /\ (last.op = "predict" /\ last.invoked) => last.target = wrapped.fitted

C3_Witness ==
    /\ last.op = "predict" /\ last.invoked
    /\ fitCalls = 2
    /\ wrapped.earlier \notin {"none", wrapped.fitted}
    /\ last.target = wrapped.fitted

\* C4: on a constructed adapter, a name that is neither adapter-owned nor
\* found by normal lookup is forwarded to fitted_estimator_ once a fit call
\* has stored one, and to the unfitted estimator before that; the owned names
\* fitted_estimator_, response_method and pos_label are never forwarded to
\* either estimator, and a missing one raises AttributeError.
C4_AttributeForwarding ==
    last.op = "getattr" =>
        /\ last.arg \in OwnedNames =>
              /\ last.target \in {"instance", "none"}
              /\ last.arg \notin DOMAIN dict => last.outcome = "AttributeError"
        /\ (/\ "estimator" \in DOMAIN dict
            /\ last.arg \notin OwnedNames \cup ClassAttrs \cup DOMAIN dict) =>
              last.target = IF wrapped.fitted # "none"
                            THEN wrapped.fitted
                            ELSE Unfitted

C4_Witness ==
    /\ last.op = "getattr" /\ last.arg = "classes_"
    /\ wrapped.fitted # "none"
    /\ last.target = dict["fitted_estimator_"]
    /\ last.outcome = "return"

\* C9: attribute lookup ends, in every state of the instance dictionary (the
\* one without the estimator attribute included), with a value or with
\* AttributeError, and __getattr__ does not re-enter itself up to the
\* interpreter's recursion limit.
C9_LookupTerminates ==
    last.op = "getattr" =>
        /\ last.outcome \in {"return", "AttributeError"}
        /\ last.depth < RecursionLimit

\* C10: without a preceding fit call that returned (none at all, or only
\* fit calls whose delegated fit raised), predict raises AttributeError, does
\* not invoke the response method of the unfitted estimator and leaves the
\* adapter's attributes as they were.
C10_PredictBeforeFit ==
    (last.op = "predict" /\ wrapped.fitted = "none") =>
        /\ last.outcome = "AttributeError"
        /\ ~last.invoked
        /\ last.target = "none"
        /\ dict = last.before

C10_Witness ==
    /\ last.op = "predict"
    /\ wrapped.fitted = "none" /\ wrapped.calls >= 1
    /\ last.outcome = "AttributeError"

----------------------------------------------------------------------------
(* Integrity-verified fetcher: the cache directory and fetch invocations *)

NProcs == 2         \* independent processes fetching the same logical_name

Procs == 1..NProcs

\* the resource descriptor of the UIS dataset: a local-store key, no checksum
ARCHIVE == [filename |-> "None", url |-> "local:uis_data", checksum |-> "None"]

\* a descriptor that declares a content hash (a dataset fetched from a URL)
HashedArchive == [filename |-> "data.csv", url |-> "https://host/data.csv",
                  checksum |-> "sha256:good"]

\* file contents: the artifact as published, a corrupted or tampered copy,
\* a partially written file; "absent" when there is no file
Hash(content) == IF content = "good" THEN "sha256:good" ELSE "sha256:other"

\* the integrity check on bytes read from the cache path: the hash is
\* recomputed and compared only if the descriptor declares one
verify_unchecked(desc, content) == "ok"
verify(desc, content) ==
    IF desc.checksum = "None" THEN "ok"
    ELSE IF Hash(content) = desc.checksum THEN "ok"
    ELSE "IntegrityError"

\* where the bytes being downloaded are written: a temporary path of the
\* process, never the cache path
begin_download_in_place(c, t) == [cache |-> "partial", temp |-> t]
begin_download(c, t) == [cache |-> c, temp |-> "partial"]

IdleProc == [pc |-> "idle", dim |-> TRUE, outcome |-> "none",
             found |-> "none", bytes |-> "none",
             downloaded |-> FALSE, wrote |-> FALSE]

Done(p, outcome, bytes) ==
    [proc[p] EXCEPT !.pc = "done", !.outcome = outcome, !.bytes = bytes]

\* a process calls fetch(descriptor, cache_root, download_if_missing)
Start(p) ==
    /\ proc[p].pc \in {"idle", "done"}
    /\ \E dim \in BOOLEAN :
          proc' = [proc EXCEPT ![p] = [IdleProc EXCEPT !.pc = "check",
                                                       !.dim = dim]]
    /\ UNCHANGED <<descriptor, cache, temp>>

\* the cached artifact, if there is one, is read and verified; if there is
\* none the invocation fails (download_if_missing false) or starts a download
Check(p) ==
    /\ proc[p].pc = "check"
    /\ IF cache # "absent"
       THEN LET v == verify(descriptor, cache)
            IN /\ proc' = [proc EXCEPT ![p] =
                     [Done(p, v, IF v = "ok" THEN cache ELSE "none")
                        EXCEPT !.found = cache]]
               /\ UNCHANGED <<cache, temp>>
       ELSE IF ~proc[p].dim
       THEN /\ proc' = [proc EXCEPT ![p] =
                  [Done(p, "MissingResourceError", "none")
                     EXCEPT !.found = "absent"]]
            /\ UNCHANGED <<cache, temp>>
       ELSE LET w == begin_download(cache, temp[p])
            IN /\ cache' = w.cache
               /\ temp' = [temp EXCEPT ![p] = w.temp]
               /\ proc' = [proc EXCEPT ![p].pc = "download",
                                       ![p].found = "absent",
                                       ![p].downloaded = TRUE]
    /\ UNCHANGED descriptor

\* the download fails part-way: the temporary file is deleted
DownloadFail(p) ==
    /\ proc[p].pc = "download"
    /\ temp' = [temp EXCEPT ![p] = "absent"]
    /\ proc' = [proc EXCEPT ![p] = Done(p, "FetchError", "none")]
    /\ UNCHANGED <<descriptor, cache>>

\* the download completes: the temporary file holds the whole artifact
DownloadComplete(p) ==
    /\ proc[p].pc = "download"
    /\ temp' = [temp EXCEPT ![p] = "good"]
    /\ proc' = [proc EXCEPT ![p].pc = "place"]
    /\ UNCHANGED <<descriptor, cache>>

\* the temporary file is atomically placed at the cache path
Place(p) ==
    /\ proc[p].pc = "place"
    /\ cache' = temp[p]
    /\ temp' = [temp EXCEPT ![p] = "absent"]
    /\ proc' = [proc EXCEPT ![p].pc = "revalidate", ![p].wrote = TRUE]
    /\ UNCHANGED descriptor

\* the placed artifact is read back and verified as a cached one is
Revalidate(p) ==
    /\ proc[p].pc = "revalidate"
    /\ proc' = [proc EXCEPT ![p] =
          IF cache = "absent" THEN Done(p, "MissingResourceError", "none")
          ELSE LET v == verify(descriptor, cache)
               IN Done(p, v, IF v = "ok" THEN cache ELSE "none")]
    /\ UNCHANGED <<descriptor, cache, temp>>

\* the environment corrupts the cached file
Corrupt ==
    /\ cache = "good"
    /\ cache' = "bad"
    /\ UNCHANGED <<descriptor, temp, proc>>

\* the environment clears the cache explicitly
ClearCache ==
    /\ cache \in {"good", "bad"}
    /\ cache' = "absent"
    /\ UNCHANGED <<descriptor, temp, proc>>

InitFetch ==
    /\ descriptor \in {ARCHIVE, HashedArchive}
    /\ cache = "absent"
    /\ temp = [p \in Procs |-> "absent"]
    /\ proc = [p \in Procs |-> IdleProc]
    /\ InitAdapter /\ InitLoadIdle

NextFetch ==
    \/ \E p \in Procs : Start(p) /\ UNCHANGED <<adapterVars, loadVars>>
    \/ \E p \in Procs : Check(p) /\ UNCHANGED <<adapterVars, loadVars>>
    \/ \E p \in Procs : DownloadFail(p) /\ UNCHANGED <<adapterVars, loadVars>>
    \/ \E p \in Procs : DownloadComplete(p) /\ UNCHANGED <<adapterVars, loadVars>>
    \/ \E p \in Procs : Place(p) /\ UNCHANGED <<adapterVars, loadVars>>
    \/ \E p \in Procs : Revalidate(p) /\ UNCHANGED <<adapterVars, loadVars>>
    \/ Corrupt /\ UNCHANGED <<adapterVars, loadVars>>
    \/ ClearCache /\ UNCHANGED <<adapterVars, loadVars>>

SpecFetch == InitFetch /\ [][NextFetch]_vars

----------------------------------------------------------------------------
(* Claims about the fetcher, checked under SpecFetch *)

\* C6 as stated: every fetch that finds a cached artifact whose content
\* differs from the one originally fetched ends in IntegrityError, without
\* downloading and without writing the cache file.
C6_CorruptCacheAlwaysRejected ==
    \A p \in Procs :
        (proc[p].pc = "done" /\ proc[p].found = "bad") =>
            /\ proc[p].outcome = "IntegrityError"
            /\ ~proc[p].downloaded
            /\ ~proc[p].wrote

\* C6 as amended: the same, for a descriptor that declares a content hash
\* (the UIS descriptor declares none).
C6_CorruptCacheRejectedWhenHashed ==
    \A p \in Procs :
        (/\ proc[p].pc = "done" /\ proc[p].found = "bad"
         /\ descriptor.checksum # "None") =>
            /\ proc[p].outcome = "IntegrityError"
            /\ proc[p].bytes = "none"
            /\ ~proc[p].downloaded
            /\ ~proc[p].wrote

C6_Witness ==
    \E p \in Procs :
        /\ proc[p].pc = "done" /\ proc[p].found = "bad"
        /\ descriptor.checksum # "None"
        /\ proc[p].outcome = "IntegrityError"
        /\ cache = "bad"

\* C7: under every interleaving of the fetch invocations, failing downloads
\* included, the cache path is absent or holds a complete artifact, never a
\* partially written file, and once every invocation has finished no file
\* other than the one at the cache path is left.
C7_NoPartialFileVisible ==
    /\ cache # "partial"
    /\ (\A p \in Procs : proc[p].pc \in {"idle", "done"}) =>
          \A p \in Procs : temp[p] = "absent"

C7_Witness ==
    \E p, q \in Procs :
        /\ p # q
        /\ proc[p].pc = "done" /\ proc[p].outcome = "FetchError"
        /\ proc[q].pc = "download" /\ temp[q] = "partial"
        /\ cache = "absent"

----------------------------------------------------------------------------
(* fetch_uis: the UIS schema and the call into the shared pipeline *)

MaxTableRows == 3   \* rows of the raw table
MaxSeed == 1        \* integer seeds 0..MaxSeed

\* dictionaries for categorical variables
hc_values == <<"1", "2", "3", "4">>
iv_values == <<"1", "2", "3">>

\* attribute descriptions
treatment_descr ==
    << [name |-> "treatment", type |-> "int32", source |-> "TREAT"] >>

target_descr_documented ==
    << [name |-> "target_time", type |-> "float", source |-> "TIME"],
       [name |-> "target_censor", type |-> "int32", source |-> "CENSOR"],
       [name |-> "target_log_time", type |-> "float", source |-> "Y"] >>
target_descr ==
    << [name |-> "target_time", type |-> "float", source |-> "TIME"],
       [name |-> "target_censor", type |-> "int32", source |-> "CENSOR"],
       [name |-> "target_log_time", type |-> "float", source |-> "Y"],
       [name |-> "target_FRAC", type |-> "float", source |-> "FRAC"] >>

feature_descr ==
    << [name |-> "AGE", type |-> "float", values |-> <<>>],
       [name |-> "BECK", type |-> "float", values |-> <<>>],
       [name |-> "HC", type |-> "categorical", values |-> hc_values],
       [name |-> "IV", type |-> "categorical", values |-> iv_values],
       [name |-> "NDT", type |-> "float", values |-> <<>>],
       [name |-> "RACE", type |-> "int32", values |-> <<>>],
       [name |-> "SITE", type |-> "int32", values |-> <<>>],
       [name |-> "LEN.T", type |-> "float", values |-> <<>>],
       [name |-> "ND1", type |-> "float", values |-> <<>>],
       [name |-> "ND2", type |-> "float", values |-> <<>>],
       [name |-> "LNDT", type |-> "float", values |-> <<>>],
       [name |-> "IV3", type |-> "int32", values |-> <<>>] >>

total_attrs == 17

\* random_state: None, or an integer seed
NoSeed == [given |-> FALSE, seed |-> 0]
RandomStates == {NoSeed} \cup {[given |-> TRUE, seed |-> k] : k \in 0..MaxSeed}

\* the arguments of a fetch_uis call; the two representation flags and
\* download_if_missing keep their defaults
LoaderArgs == [shuffle : BOOLEAN, random_state : RandomStates,
               return_X_y : BOOLEAN, categ_as_strings : {FALSE},
               as_frame : {FALSE}, download_if_missing : {TRUE}]

\* the call fetch_uis makes into the shared pipeline
fetch_uis_call_unseeded(args) ==
    [archive |-> ARCHIVE, dataset_name |-> "uis",
     feature_attrs |-> feature_descr,
     treatment_attrs |-> treatment_descr,
     target_attrs |-> target_descr,
     categ_as_strings |-> args.categ_as_strings,
     return_X_y |-> args.return_X_y, as_frame |-> args.as_frame,
     download_if_missing |-> args.download_if_missing,
     random_state |-> NoSeed, shuffle |-> args.shuffle,
     total_attrs |-> total_attrs]
fetch_uis_call(args) ==
    [archive |-> ARCHIVE, dataset_name |-> "uis",
     feature_attrs |-> feature_descr,
     treatment_attrs |-> treatment_descr,
     target_attrs |-> target_descr,
     categ_as_strings |-> args.categ_as_strings,
     return_X_y |-> args.return_X_y, as_frame |-> args.as_frame,
     download_if_missing |-> args.download_if_missing,
     random_state |-> args.random_state, shuffle |-> args.shuffle,
     total_attrs |-> total_attrs]

----------------------------------------------------------------------------
(* The shared pipeline: shuffling and assembly (datasets/base.py)          *)
(* A cell of the table is <<source row, source column>>.                   *)

Identity(n) == [i \in 1..n |-> i]
Perms(n) == {f \in [1..n -> 1..n] : \A i, j \in 1..n : i # j => f[i] # f[j]}

\* the pseudo-random generator: a linear congruential step on 6 bits
lcg(s) == (37 * s + 11) % 64

Swap(f, i, j) == [f EXCEPT ![i] = f[j], ![j] = f[i]]

\* Fisher-Yates shuffle of the row indices, driven by the generator
RECURSIVE fisher_yates(_, _, _)
fisher_yates(f, s, i) ==
    IF i <= 1 THEN f
    ELSE LET s2 == lcg(s)
             j == ((s2 \div 4) % i) + 1
         IN fisher_yates(Swap(f, i, j), s2, i - 1)

seeded_permutation(seed, n) == fisher_yates(Identity(n), seed % 64, n)

\* the row orders an invocation may produce: source order without shuffle,
\* the seed's permutation with an integer seed, any permutation without one
row_orders(call, n) ==
    IF ~call.shuffle THEN {Identity(n)}
    ELSE IF call.random_state.given
    THEN {seeded_permutation(call.random_state.seed, n)}
    ELSE Perms(n)

\* one output column: the cells of a source column in the row order
column_of(source, order) == [i \in 1..Len(order) |-> <<order[i], source>>]

NoResult == [kind |-> "none", items |-> <<>>, data |-> <<>>, target |-> <<>>,
             treatment |-> <<>>, feature_names |-> <<>>,
             target_names |-> <<>>, descr |-> ""]

\* assembly: the feature matrix, every declared target and the treatment
\* columns, as a flat tuple or as a bundle
_fetch_remote_csv(call, order) ==
    LET fa == call.feature_attrs
        ta == call.target_attrs
        tr == call.treatment_attrs
        data == [i \in 1..Len(order) |->
                    [j \in 1..Len(fa) |-> <<order[i], fa[j].name>>]]
        targets == [k \in 1..Len(ta) |->
                       [name |-> ta[k].name,
                        values |-> column_of(ta[k].source, order)]]
        treatments == [k \in 1..Len(tr) |->
                          [name |-> tr[k].name,
                           values |-> column_of(tr[k].source, order)]]
    IN IF call.return_X_y
       THEN [NoResult EXCEPT
               !.kind = "tuple",
               !.items = <<[name |-> "data", values |-> data]>>
                         \o targets \o treatments]
       ELSE [NoResult EXCEPT
               !.kind = "bunch", !.data = data, !.target = targets,
               !.treatment = treatments,
               !.feature_names = [j \in 1..Len(fa) |-> fa[j].name],
               !.target_names = [k \in 1..Len(ta) |-> ta[k].name]]

\* fetch_uis: the pipeline's result, with the module docstring as descr
\* when a bundle is returned
fetch_uis(args, order) ==
    LET ret == _fetch_remote_csv(fetch_uis_call(args), order)
    IN IF ~args.return_X_y THEN [ret EXCEPT !.descr = "__doc__"] ELSE ret

\* two independent loader invocations over the same table
Invocations == {1, 2}

NoRun == [done |-> FALSE, args |-> [shuffle |-> FALSE, random_state |-> NoSeed,
                                    return_X_y |-> FALSE,
                                    categ_as_strings |-> FALSE,
                                    as_frame |-> FALSE,
                                    download_if_missing |-> TRUE],
          order |-> <<>>, result |-> NoResult]

Load(k) ==
    /\ \E args \in LoaderArgs :
         \E order \in row_orders(fetch_uis_call(args), table) :
            runs' = [runs EXCEPT ![k] = [done |-> TRUE, args |-> args,
                                         order |-> order,
                                         result |-> fetch_uis(args, order)]]
    /\ UNCHANGED table

InitLoad ==
    /\ table \in 1..MaxTableRows
    /\ runs = [k \in Invocations |-> NoRun]
    /\ InitAdapter /\ InitFetchIdle

NextLoad == \E k \in Invocations : Load(k) /\ UNCHANGED <<adapterVars, fetchVars>>

SpecLoad == InitLoad /\ [][NextLoad]_vars

----------------------------------------------------------------------------
(* Claims about the loader, checked under SpecLoad *)

Names(items) == [k \in 1..Len(items) |-> items[k].name]

\* the source column every cell of a column comes from
ComesFrom(col, source) == \A i \in 1..Len(col) : col[i][2] = source

FeaturesOf(r) == IF r.kind = "tuple" THEN r.items[1].values ELSE r.data
ColumnsOf(r) ==
    IF r.kind = "tuple" THEN SubSeq(r.items, 2, Len(r.items))
    ELSE r.target \o r.treatment

\* C8: with shuffle true and the same integer random_state, two independent
\* invocations over the same table give the same row order; and within an
\* invocation one permutation of the rows is applied to the feature matrix
\* and to every target and treatment column alike.
C8_ShuffleDeterministicAndAligned ==
    /\ \A a, b \in Invocations :
          (/\ runs[a].done /\ runs[b].done
           /\ runs[a].args.shuffle /\ runs[b].args.shuffle
           /\ runs[a].args.random_state.given
           /\ runs[a].args.random_state = runs[b].args.random_state) =>
              /\ runs[a].order = runs[b].order
              /\ FeaturesOf(runs[a].result) = FeaturesOf(runs[b].result)
    /\ \A k \in Invocations : (runs[k].done /\ runs[k].args.shuffle) =>
          LET r == runs[k].result
              X == FeaturesOf(r)
              cols == ColumnsOf(r)
          IN /\ Len(X) = table
             /\ \A s \in 1..table : \E i \in 1..table : X[i][1][1] = s
             /\ \A i \in 1..table :
                   /\ \A j \in 1..Len(X[i]) : X[i][j][1] = X[i][1][1]
                   /\ \A c \in 1..Len(cols) :
                         cols[c].values[i][1] = X[i][1][1]

C8_Witness ==
    /\ table = 3
    /\ runs[1].done /\ runs[2].done
    /\ runs[1].args.shuffle /\ runs[2].args.shuffle
    /\ runs[1].args.random_state.given
    /\ runs[1].args.random_state = runs[2].args.random_state
    /\ runs[1].args.return_X_y /\ ~runs[2].args.return_X_y
    /\ runs[1].order = runs[2].order
    /\ runs[1].order # Identity(3)

====
